---- MODULE Spec2Model ----
(***************************************************************************)
(* Model of papis/tui/utils.py: the range parser get_range, the selector   *)
(* select_range, the yes/no confirmation confirm (both built on prompt),   *)
(* and the small editor text_area.                                         *)
(*                                                                         *)
(* A Python str is a sequence of one-character strings.  A Python list of  *)
(* ints is a sequence of integers.                                         *)
(***************************************************************************)
EXTENDS Integers, Sequences, FiniteSets, TLC

VARIABLES
    fn,             \* the function called: get_range, select_range, confirm, text_area
    pc,             \* position inside that function
    range_str,      \* get_range: its argument (line 175)
    options,        \* select_range: the option list (line 185)
    yes,            \* confirm: the `yes` parameter (line 6)
    stdout,         \* the lines select_range printed, as <<i, o>> (line 187)
    buffer,         \* text of the prompt's input buffer (line 166), of text_buffer (line 62)
    error_message,  \* what the prompt shows after a refused Enter (lines 158-160)
    prompts,        \* number of times prompt() was entered
    selection,      \* what prompt() returned: select_range.selection, confirm.result
    should_save,    \* text_area: the enclosing function's should_save (line 64)
    save_pressed,   \* text_area: save_ has run at least once
    exc,            \* the exception that left the function, "none" if none
    ret             \* the function's return value

vars == <<fn, pc, range_str, options, yes, stdout, buffer, error_message,
          prompts, selection, should_save, save_pressed, exc, ret>>

---------------------------------------------------------------------------
(* Bounds *)

MaxLen == 5          \* longest range string handed to get_range directly
MaxInputLen == 3     \* longest text typed into a prompt
MaxOptions == 11     \* longest option list
MaxTextLen == 3      \* longest text in the text_area buffer

RangeAlphabet == {"0", "1", "9", "-", ",", "x"}
InputAlphabet == {"0", "1", "9", "-", ",", "a", "l"}
ConfirmAlphabet == {"Y", "y", "N", "n", "x"}
TextAlphabet == {"a", "b", "c"}

Strs(A, n) == UNION {[1..k -> A] : k \in 0..n}

NoValue == <<"<none>">>

---------------------------------------------------------------------------
(* Python built-ins used by the code *)

Digits == <<"0", "1", "2", "3", "4", "5", "6", "7", "8", "9">>

\* the characters \d matches
IsDigit(c) == \E d \in 1..10 : Digits[d] = c

DigitVal(c) == (CHOOSE d \in 1..10 : Digits[d] = c) - 1

\* int(s) raises ValueError when s is not a decimal literal
IntRaises(s) == s = <<>> \/ \E k \in 1..Len(s) : ~IsDigit(s[k])

RECURSIVE int(_)
int(s) ==
    IF Len(s) = 0 THEN 0
    ELSE 10 * int(SubSeq(s, 1, Len(s) - 1)) + DigitVal(s[Len(s)])

\* str that keeps only the last digit
str_last_digit(n) == <<Digits[(n % 10) + 1]>>

RECURSIVE str(_)
str(n) ==
    IF n < 10 THEN <<Digits[n + 1]>>
    ELSE str(n \div 10) \o <<Digits[(n % 10) + 1]>>

\* list(range(a, b))
range(a, b) == [k \in 1..(b - a) |-> a + k - 1]

\* sum(lists, [])
RECURSIVE sum(_)
sum(lists) ==
    IF lists = <<>> THEN <<>>
    ELSE Head(lists) \o sum(Tail(lists))

\* sep.join(parts)
RECURSIVE join(_, _)
join(sep, parts) ==
    IF parts = <<>> THEN <<>>
    ELSE IF Len(parts) = 1 THEN parts[1]
    ELSE parts[1] \o sep \o join(sep, Tail(parts))

\* x in s, for two str
StrIn(x, s) ==
    \E b \in 1..(Len(s) + 1) :
        /\ b + Len(x) - 1 <= Len(s)
        /\ SubSeq(s, b, b + Len(x) - 1) = x

ToSet(l) == {l[k] : k \in 1..Len(l)}

\* [x for x in l if x in keep]
RECURSIVE Filter(_, _)
Filter(l, keep) ==
    IF l = <<>> THEN <<>>
    ELSE (IF Head(l) \in keep THEN <<Head(l)>> ELSE <<>>) \o Filter(Tail(l), keep)

---------------------------------------------------------------------------
(* get_range *)

\* index of the last character of the run of \d starting at i (i - 1 if none)
RECURSIVE DigitRunEnd(_, _)
DigitRunEnd(s, i) ==
    IF i <= Len(s) /\ IsDigit(s[i]) THEN DigitRunEnd(s, i + 1) ELSE i - 1

\* one match of (\d+)-?(\d+)? anchored at i: its two groups and its last index
MatchAt(s, i) ==
    LET e1 == DigitRunEnd(s, i)
        d  == IF e1 + 1 <= Len(s) /\ s[e1 + 1] = "-" THEN e1 + 1 ELSE e1
        e2 == DigitRunEnd(s, d + 1)
    IN [g1 |-> SubSeq(s, i, e1), g2 |-> SubSeq(s, d + 1, e2), end |-> e2]

\* range_regex.findall(s), scanning from i
RECURSIVE findall(_, _)
findall(s, i) ==
    IF i > Len(s) THEN <<>>
    ELSE IF IsDigit(s[i])
         THEN LET m == MatchAt(s, i)
              IN <<<<m.g1, m.g2>>>> \o findall(s, m.end + 1)
         ELSE findall(s, i + 1)

\* p[1] if p[1] else p[0]
Upper(p) == IF p[2] # <<>> THEN p[2] ELSE p[1]

\* number of decimal digits of sys.maxsize (2^63 - 1 = 9223372036854775807),
\* the longest length a list can have
SysMaxsizeDigits == 19

\* the literal without its leading zeros
RECURSIVE Significant(_)
Significant(s) ==
    IF s # <<>> /\ Head(s) = "0" THEN Significant(Tail(s)) ELSE s

\* int(s) > sys.maxsize, decided on the literal: every literal with more than
\* SysMaxsizeDigits significant digits denotes such a number
ExceedsMaxsize(s) == Len(Significant(s)) > SysMaxsizeDigits

\* list(range(int(p[0]), int(p[1] if p[1] else p[0]) + 1)) raises OverflowError
\* ("Python int too large to convert to C ssize_t") when the range has more
\* than sys.maxsize elements.  The literals of the inputs modelled here either
\* fit in a machine word or exceed sys.maxsize.
ListOverflows(p) == ExceedsMaxsize(Upper(p)) /\ ~ExceedsMaxsize(p[1])

\* list(range(int(p[0]), int(p[1] if p[1] else p[0]) + 1))
Expand(p) == range(int(p[1]), int(Upper(p)) + 1)

\* the outcome of get_range: the list returned, and the exception that escapes.
\* The list comprehension evaluates the matches in order and stops at the
\* first one that raises; only ValueError is caught.
get_range_call(s) ==
    LET ps == findall(s, 1)
        Raises(k) == IntRaises(ps[k][1]) \/ IntRaises(Upper(ps[k])) \/ ListOverflows(ps[k])
    IN IF \E k \in 1..Len(ps) : Raises(k)
       THEN LET first == CHOOSE k \in 1..Len(ps) :
                            Raises(k) /\ \A j \in 1..(k - 1) : ~Raises(j)
            IN IF ListOverflows(ps[first]) /\ ~IntRaises(ps[first][1])
                  /\ ~IntRaises(Upper(ps[first]))
               THEN [exc |-> "OverflowError", ret |-> NoValue]
               ELSE [exc |-> "none", ret |-> <<>>]   \* except ValueError: return []
       ELSE [exc |-> "none", ret |-> sum([k \in 1..Len(ps) |-> Expand(ps[k])])]

get_range(s) == get_range_call(s).ret

---------------------------------------------------------------------------
(* Inputs *)

\* "0-99999999999999999999" and "1,0-99999999999999999999": ranges whose upper
\* end has one digit more than sys.maxsize
LongRange == <<"0", "-">> \o [k \in 1..(SysMaxsizeDigits + 1) |-> "9"]

LongInputs == {LongRange, <<"1", ",">> \o LongRange}

RangeInputs == Strs(RangeAlphabet, MaxLen) \cup LongInputs

---------------------------------------------------------------------------
(* Specification of get_range alone *)

InitGetRange ==
    /\ fn = "get_range"
    /\ pc = "call"
    /\ range_str \in RangeInputs
    /\ options = <<>>
    /\ yes = TRUE
    /\ stdout = <<>>
    /\ buffer = <<>>
    /\ error_message = ""
    /\ prompts = 0
    /\ selection = NoValue
    /\ should_save = FALSE
    /\ save_pressed = FALSE
    /\ exc = "none"
    /\ ret = NoValue

GetRange ==
    /\ fn = "get_range"
    /\ pc = "call"
    /\ pc' = "returned"
    /\ exc' = get_range_call(range_str).exc
    /\ ret' = get_range_call(range_str).ret
    /\ UNCHANGED <<fn, range_str, options, yes, stdout, buffer, error_message,
                   prompts, selection, should_save, save_pressed>>

NextGetRange == GetRange

SpecGetRange == InitGetRange /\ [][NextGetRange]_vars

---------------------------------------------------------------------------
(* prompt *)

\* return str(result) if result else default
prompt(result, default) == IF result # <<>> THEN result ELSE default

\* the user types a character into the prompt's buffer; a change of the text
\* clears the validation error shown
PromptInsert(c) ==
    /\ pc = "prompt"
    /\ Len(buffer) < MaxInputLen
    /\ buffer' = Append(buffer, c)
    /\ error_message' = ""
    /\ UNCHANGED <<fn, pc, range_str, options, yes, stdout, prompts, selection,
                   should_save, save_pressed, exc, ret>>

\* the user pastes a text into the empty buffer
PromptPaste(s) ==
    /\ pc = "prompt"
    /\ buffer = <<>>
    /\ buffer' = s
    /\ error_message' = ""
    /\ UNCHANGED <<fn, pc, range_str, options, yes, stdout, prompts, selection,
                   should_save, save_pressed, exc, ret>>

\* the user deletes the whole line
PromptClear ==
    /\ pc = "prompt"
    /\ buffer # <<>>
    /\ buffer' = <<>>
    /\ error_message' = ""
    /\ UNCHANGED <<fn, pc, range_str, options, yes, stdout, prompts, selection,
                   should_save, save_pressed, exc, ret>>

---------------------------------------------------------------------------
(* select_range *)

\* possible_indices = range(len(options))
possible_indices(opts) == range(0, Len(opts))

all_keywords == <<<<"a", "l", "l">>, <<"a">>>>

SelectDirtyMessage == "Range not valid, example: 0, 2, 3-10, a, all, ..."

\* the emptiness test left out
not_options_never(opts) == FALSE

\* if not options: return []
not_options(opts) == opts = <<>>

\* the validator with >= 0 in place of > 0
select_validator_nonstrict(opts, string) ==
    \/ string \in ToSet(all_keywords)
    \/ Cardinality(ToSet(get_range(string)) \cap ToSet(possible_indices(opts))) >= 0

\* the validator without the intersection with possible_indices
select_validator_any_number(opts, string) ==
    \/ string \in ToSet(all_keywords)
    \/ Cardinality(ToSet(get_range(string))) > 0

\* lambda string: string in all_keywords or
\*     len(set(get_range(string)) & set(possible_indices)) > 0
select_validator(opts, string) ==
    \/ string \in ToSet(all_keywords)
    \/ Cardinality(ToSet(get_range(string)) \cap ToSet(possible_indices(opts))) > 0

\* the validator raises what get_range raises (the keyword test comes first)
select_validator_raises(string) ==
    /\ string \notin ToSet(all_keywords)
    /\ get_range_call(string).exc # "none"

\* ",".join(map(str, range(len(options))))
all_selection(opts) ==
    join(<<",">>, [k \in 1..Len(opts) |-> str(range(0, Len(opts))[k])])

\* if selection in all_keywords: selection = ",".join(...)
substituted(opts, sel) ==
    IF sel \in ToSet(all_keywords) THEN all_selection(opts) ELSE sel

\* the final filter with i <= len(options)
select_result_off_by_one(opts, sel) ==
    Filter(get_range(substituted(opts, sel)), 0..Len(opts))

\* return [i for i in get_range(selection) if i in possible_indices]
select_result(opts, sel) ==
    Filter(get_range(substituted(opts, sel)), ToSet(possible_indices(opts)))

OptionLists == UNION {[1..n -> {"opt"}] : n \in 0..MaxOptions}

InitSelect ==
    /\ fn = "select_range"
    /\ pc = "call"
    /\ range_str = <<>>
    /\ options \in OptionLists
    /\ yes = TRUE
    /\ stdout = <<>>
    /\ buffer = <<>>
    /\ error_message = ""
    /\ prompts = 0
    /\ selection = NoValue
    /\ should_save = FALSE
    /\ save_pressed = FALSE
    /\ exc = "none"
    /\ ret = NoValue

\* select_range up to the point where it waits in prompt(): the option lines
\* are printed, an empty option list returns at once
select_range ==
    /\ fn = "select_range"
    /\ pc = "call"
    /\ stdout' = [i \in 1..Len(options) |-> <<i - 1, options[i]>>]
    /\ IF not_options(options)
       THEN /\ pc' = "returned"
            /\ ret' = <<>>
            /\ prompts' = prompts
       ELSE /\ pc' = "prompt"
            /\ ret' = ret
            /\ prompts' = prompts + 1
    /\ UNCHANGED <<fn, range_str, options, yes, buffer, error_message, selection, should_save, save_pressed, exc>>

\* Enter on a text the validator refuses: the toolkit shows the dirty_message
\* and keeps the prompt open with the text in the buffer
SelectReject ==
    /\ fn = "select_range"
    /\ pc = "prompt"
    /\ ~select_validator_raises(buffer)
    /\ ~select_validator(options, buffer)
    /\ error_message' = SelectDirtyMessage
    /\ UNCHANGED <<fn, pc, range_str, options, yes, stdout, buffer, prompts,
                   selection, should_save, save_pressed, exc, ret>>

\* Enter on a text for which the validator itself raises: the toolkit catches
\* only its own ValidationError around the validator; anything else reaches
\* the running application's event-loop exception handler, which reports it
\* on the terminal and leaves the prompt open
SelectValidatorError ==
    /\ fn = "select_range"
    /\ pc = "prompt"
    /\ select_validator_raises(buffer)
    /\ error_message' = "Unhandled exception in event loop"
    /\ UNCHANGED <<fn, pc, range_str, options, yes, stdout, buffer, prompts,
                   selection, should_save, save_pressed, exc, ret>>

\* Enter on a text the validator accepts: prompt() returns it and select_range
\* runs to its return
SelectAccept ==
    /\ fn = "select_range"
    /\ pc = "prompt"
    /\ ~select_validator_raises(buffer)
    /\ select_validator(options, buffer)
    /\ selection' = prompt(buffer, <<>>)
    /\ exc' = get_range_call(substituted(options, selection')).exc
    /\ ret' = select_result(options, selection')
    /\ pc' = "returned"
    /\ UNCHANGED <<fn, range_str, options, yes, stdout, buffer, error_message,
                   prompts, should_save, save_pressed>>

NextSelect ==
    \/ select_range
    \/ \E c \in InputAlphabet : PromptInsert(c) /\ fn = "select_range"
    \/ \E s \in LongInputs : PromptPaste(s) /\ fn = "select_range"
    \/ PromptClear /\ fn = "select_range"
    \/ SelectReject
    \/ SelectValidatorError
    \/ SelectAccept

SpecSelect == InitSelect /\ [][NextSelect]_vars

---------------------------------------------------------------------------
(* confirm *)

ConfirmDirtyMessage == "Please, write either \"y\" or \"n\" to confirm"

\* default='Y/n' if yes else 'y/N'
confirm_default(y) == IF y THEN <<"Y", "/", "n">> ELSE <<"y", "/", "N">>

\* lambda x: x in 'YyNn'
confirm_validator(x) == StrIn(x, <<"Y", "y", "N", "n">>)

\* the return value computed as if yes were False
confirm_return_ignores_yes(y, result) == StrIn(result, <<"Y", "y">>)

\* if yes: return result not in 'Nn'
\* return result in 'Yy'
confirm_return(y, result) ==
    IF y THEN ~StrIn(result, <<"N", "n">>) ELSE StrIn(result, <<"Y", "y">>)

InitConfirm ==
    /\ fn = "confirm"
    /\ pc = "call"
    /\ range_str = <<>>
    /\ options = <<>>
    /\ yes \in BOOLEAN
    /\ stdout = <<>>
    /\ buffer = <<>>
    /\ error_message = ""
    /\ prompts = 0
    /\ selection = NoValue
    /\ should_save = FALSE
    /\ save_pressed = FALSE
    /\ exc = "none"
    /\ ret = NoValue

\* confirm up to the point where it waits in prompt()
confirm ==
    /\ fn = "confirm"
    /\ pc = "call"
    /\ pc' = "prompt"
    /\ prompts' = prompts + 1
    /\ UNCHANGED <<fn, range_str, options, yes, stdout, buffer, error_message,
                   selection, should_save, save_pressed, exc, ret>>

\* Enter on a text the validator refuses
ConfirmReject ==
    /\ fn = "confirm"
    /\ pc = "prompt"
    /\ ~confirm_validator(buffer)
    /\ error_message' = ConfirmDirtyMessage
    /\ UNCHANGED <<fn, pc, range_str, options, yes, stdout, buffer, prompts,
                   selection, should_save, save_pressed, exc, ret>>

\* Enter on a text the validator accepts: prompt() returns and confirm runs to
\* its return
ConfirmAccept ==
    /\ fn = "confirm"
    /\ pc = "prompt"
    /\ confirm_validator(buffer)
    /\ selection' = prompt(buffer, confirm_default(yes))
    /\ ret' = confirm_return(yes, selection')
    /\ pc' = "returned"
    /\ UNCHANGED <<fn, range_str, options, yes, stdout, buffer, error_message,
                   prompts, should_save, save_pressed, exc>>

NextConfirm ==
    \/ confirm
    \/ \E c \in ConfirmAlphabet : PromptInsert(c) /\ fn = "confirm"
    \/ PromptClear /\ fn = "confirm"
    \/ ConfirmReject
    \/ ConfirmAccept

SpecConfirm == InitConfirm /\ [][NextConfirm]_vars

---------------------------------------------------------------------------
(* text_area *)

Texts == Strs(TextAlphabet, MaxTextLen)

\* the state when app.run() starts: text_buffer.text = text, should_save = False
InitTextArea ==
    /\ fn = "text_area"
    /\ pc = "running"
    /\ range_str = <<>>
    /\ options = <<>>
    /\ yes = TRUE
    /\ stdout = <<>>
    /\ buffer \in Texts
    /\ error_message = ""
    /\ prompts = 0
    /\ selection = NoValue
    /\ should_save = FALSE
    /\ save_pressed = FALSE
    /\ exc = "none"
    /\ ret = NoValue

\* the value of text_area's should_save after save_ has run: save_ declares
\* nothing nonlocal, so `should_save = True` binds a variable local to save_
\* and the enclosing variable keeps its value
save_assign(outer) == outer

\* Ctrl-s
save_ ==
    /\ fn = "text_area"
    /\ pc = "running"
    /\ should_save' = save_assign(should_save)
    /\ save_pressed' = TRUE
    /\ UNCHANGED <<fn, pc, range_str, options, yes, stdout, buffer, error_message,
                   prompts, selection, exc, ret>>

\* Ctrl-q: event.app.exit() ends app.run(), and text_area returns
\* text_buffer.text if should_save else ""
exit_ ==
    /\ fn = "text_area"
    /\ pc = "running"
    /\ pc' = "returned"
    /\ ret' = IF should_save THEN buffer ELSE <<>>
    /\ UNCHANGED <<fn, range_str, options, yes, stdout, buffer, error_message,
                   prompts, selection, should_save, save_pressed, exc>>

\* the user types a character at the end of the buffer
InsertChar(c) ==
    /\ fn = "text_area"
    /\ pc = "running"
    /\ Len(buffer) < MaxTextLen
    /\ buffer' = Append(buffer, c)
    /\ UNCHANGED <<fn, pc, range_str, options, yes, stdout, error_message,
                   prompts, selection, should_save, save_pressed, exc, ret>>

\* the user deletes the last character of the buffer
DeleteChar ==
    /\ fn = "text_area"
    /\ pc = "running"
    /\ buffer # <<>>
    /\ buffer' = SubSeq(buffer, 1, Len(buffer) - 1)
    /\ UNCHANGED <<fn, pc, range_str, options, yes, stdout, error_message,
                   prompts, selection, should_save, save_pressed, exc, ret>>

NextTextArea ==
    \/ save_
    \/ exit_
    \/ \E c \in TextAlphabet : InsertChar(c)
    \/ DeleteChar

SpecTextArea == InitTextArea /\ [][NextTextArea]_vars

---------------------------------------------------------------------------
(* The claims' vocabulary, stated on the text of the input alone *)

RECURSIVE Pow10(_)
Pow10(n) == IF n = 0 THEN 1 ELSE 10 * Pow10(n - 1)

\* the number a run of decimal digits denotes
NumeralValue(s) ==
    LET Term(k) == DigitVal(s[k]) * Pow10(Len(s) - k)
        RECURSIVE Total(_)
        Total(k) == IF k = 0 THEN 0 ELSE Total(k - 1) + Term(k)
    IN Total(Len(s))

\* the maximal runs of digits of s, as <<first, last>>, from left to right
DigitRuns(s) ==
    LET Starts == {b \in 1..Len(s) : IsDigit(s[b]) /\ (b = 1 \/ ~IsDigit(s[b - 1]))}
        EndOf(b) == CHOOSE e \in b..Len(s) :
                        /\ \A k \in b..e : IsDigit(s[k])
                        /\ e = Len(s) \/ ~IsDigit(s[e + 1])
        RECURSIVE Sorted(_)
        Sorted(S) ==
            IF S = {} THEN <<>>
            ELSE LET b == CHOOSE x \in S : \A y \in S : x <= y
                 IN <<<<b, EndOf(b)>>>> \o Sorted(S \ {b})
    IN Sorted(Starts)

\* the ascending inclusive sequence lo..hi (empty when hi < lo)
Ascending(lo, hi) == [k \in 1..(hi - lo + 1) |-> lo + k - 1]

\* the concatenated expansions of the tokens of s: a run followed by exactly one
\* dash and another run is a pair lo-hi, every other run is a lone number
TokenExpansion(s) ==
    LET runs == DigitRuns(s)
        Val(k) == NumeralValue(SubSeq(s, runs[k][1], runs[k][2]))
        Paired(k) ==
            /\ k < Len(runs)
            /\ runs[k + 1][1] = runs[k][2] + 2
            /\ s[runs[k][2] + 1] = "-"
        RECURSIVE From(_)
        From(k) ==
            IF k > Len(runs) THEN <<>>
            ELSE IF Paired(k) THEN Ascending(Val(k), Val(k + 1)) \o From(k + 2)
            ELSE <<Val(k)>> \o From(k + 1)
    IN From(1)

HasDigit(s) == \E k \in 1..Len(s) : IsDigit(s[k])

\* s is exactly lo-hi with hi < lo
InvertedPair(s) ==
    /\ Len(DigitRuns(s)) = 2
    /\ DigitRuns(s)[1][1] = 1
    /\ DigitRuns(s)[2][2] = Len(s)
    /\ DigitRuns(s)[2][1] = DigitRuns(s)[1][2] + 2
    /\ s[DigitRuns(s)[1][2] + 1] = "-"
    /\ NumeralValue(SubSeq(s, DigitRuns(s)[2][1], Len(s)))
         < NumeralValue(SubSeq(s, 1, DigitRuns(s)[1][2]))

\* the elements of l that are indices of a list of length n, in l's order
InRangeSubsequence(l, n) ==
    LET Keep == {k \in 1..Len(l) : 0 <= l[k] /\ l[k] < n}
        RECURSIVE Pick(_)
        Pick(S) ==
            IF S = {} THEN <<>>
            ELSE LET k == CHOOSE x \in S : \A y \in S : x <= y
                 IN <<l[k]>> \o Pick(S \ {k})
    IN Pick(Keep)

KeywordAll == <<"a", "l", "l">>
KeywordA == <<"a">>

\* the validity predicate of the selector, on a text whose range parses
ValidSelection(opts, s) ==
    \/ s = KeywordAll
    \/ s = KeywordA
    \/ \E k \in 1..Len(get_range(s)) :
          0 <= get_range(s)[k] /\ get_range(s)[k] < Len(opts)

Returned(f) == fn = f /\ pc = "returned"

---------------------------------------------------------------------------
(* get_range: C1, C6 *)

\* C1: for every input string s, get_range(s) returns the concatenation, in
\* match order, of the expansions of the tokens of s.
C1_GetRangeIsTokenExpansion ==
    Returned("get_range") => (exc = "none" /\ ret = TokenExpansion(range_str))

\* What holds of C1: whenever get_range returns, it returns the token expansion.
GetRangeReturnsTokenExpansion ==
    (Returned("get_range") /\ exc = "none") => ret = TokenExpansion(range_str)

\* C6: get_range never raises; a string without digits gives [], an inverted
\* pair gives [], and the tokens on either side of a comma contribute
\* independently of each other.
C6_GetRangeNeverRaises ==
    Returned("get_range") =>
        /\ exc = "none"
        /\ ~HasDigit(range_str) => ret = <<>>
        /\ InvertedPair(range_str) => ret = <<>>
        /\ \A k \in 1..Len(range_str) :
              range_str[k] = "," =>
                  ret = get_range(SubSeq(range_str, 1, k - 1))
                          \o get_range(SubSeq(range_str, k + 1, Len(range_str)))

\* What holds of C6: every call that does not build an over-long list returns,
\* with the results C6 states.
GetRangeResultsWhenReturned ==
    (Returned("get_range") /\ exc = "none") =>
        /\ ~HasDigit(range_str) => ret = <<>>
        /\ InvertedPair(range_str) => ret = <<>>
        /\ \A k \in 1..Len(range_str) :
              range_str[k] = "," =>
                  ret = get_range(SubSeq(range_str, 1, k - 1))
                          \o get_range(SubSeq(range_str, k + 1, Len(range_str)))

\* the only calls that raise are those with a range longer than sys.maxsize
GetRangeRaisesOnlyOnOverflow ==
    Returned("get_range") => (exc # "none" <=> range_str \in LongInputs)

---------------------------------------------------------------------------
(* select_range: C2, C3, C4, C5, C10 *)

\* C2: for a non-empty option list and a committed range string that is no
\* keyword, select_range returns the elements i of get_range(s) with
\* 0 <= i < len(options), in order, duplicates kept.
C2_SelectIsInRangeSubsequence ==
    (Returned("select_range") /\ options # <<>>
        /\ selection # KeywordAll /\ selection # KeywordA) =>
        /\ selection = buffer
        /\ ret = InRangeSubsequence(get_range(selection), Len(options))

C2_Witness ==
    /\ Returned("select_range")
    /\ Len(options) = 9
    /\ selection = <<"9", ",", "1">>
    /\ ret = <<1>>

\* C3: committing "all" or "a" returns [0, ..., N-1]; the keyword is replaced
\* by "0,1,...,N-1", which get_range parses back to [0, ..., N-1].
C3_AllSelectsEveryIndex ==
    (Returned("select_range") /\ (selection = KeywordAll \/ selection = KeywordA)) =>
        /\ ret = [k \in 1..Len(options) |-> k - 1]
        /\ get_range(all_selection(options)) = [k \in 1..Len(options) |-> k - 1]

C3_Witness ==
    /\ Returned("select_range")
    /\ selection = KeywordAll
    /\ Len(options) >= 11
    /\ ret[11] = 10

C5_EmptyOptionsReturnAtOnce ==
    (fn = "select_range" /\ options = <<>> /\ pc # "call") =>
        /\ pc = "returned"
        /\ ret = <<>>
        /\ prompts = 0
        /\ stdout = <<>>
        /\ buffer = <<>>
        /\ selection = NoValue

C5_Witness == Returned("select_range") /\ options = <<>> /\ ret = <<>>

\* C10: for a non-empty option list of length N, the list select_range returns
\* is non-empty and each of its elements i satisfies 0 <= i < N.
C10_ResultNonEmptyAndInRange ==
    (Returned("select_range") /\ options # <<>>) =>
        /\ ret # <<>>
        /\ \A k \in 1..Len(ret) : 0 <= ret[k] /\ ret[k] < Len(options)

C10_Witness ==
    /\ Returned("select_range")
    /\ Len(options) = 2
    /\ buffer = <<"0", "-", "9">>
    /\ ret = <<0, 1>>

---------------------------------------------------------------------------
(* confirm: C8, C9 *)

\* C8: a committed "y" or "Y" returns True, a committed "n" or "N" returns
\* False, and a committed empty input returns the default: prompt() hands back
\* 'Y/n' or 'y/N', and confirm returns the value of yes.
C8_ConfirmAnswers ==
    Returned("confirm") =>
        /\ buffer \in {<<"y">>, <<"Y">>} => ret = TRUE
        /\ buffer \in {<<"n">>, <<"N">>} => ret = FALSE
        /\ buffer = <<>> => (selection = confirm_default(yes) /\ ret = yes)

C8_Witness == Returned("confirm") /\ buffer = <<>> /\ yes = FALSE /\ ret = FALSE

\* C9: the only texts confirm's prompt commits are the empty one and the single
\* characters Y, y, N, n; every other text is refused with the dirty message.
C9_OnlySingleLetterCommitted ==
    fn = "confirm" =>
        /\ pc = "returned" =>
              buffer \in {<<>>, <<"Y">>, <<"y">>, <<"N">>, <<"n">>}
        /\ (pc = "prompt" /\ error_message = ConfirmDirtyMessage) =>
              buffer \notin {<<>>, <<"Y">>, <<"y">>, <<"N">>, <<"n">>}

---------------------------------------------------------------------------
(* text_area: C7 *)

\* C7: text_area returns the buffer's text when Ctrl-s was pressed before
\* Ctrl-q, and the empty string when it was not.
C7_SaveReturnsText ==
    Returned("text_area") =>
        /\ save_pressed => ret = buffer
        /\ ~save_pressed => ret = <<>>

====
